---- MODULE Spec2Model ----
(***************************************************************************)
(* The load-balancing (drafting) agent of the FREEDM DGI broker,           *)
(* src/Broker/src/lb/LoadBalance.cpp.  One lbAgent per node: a periodic    *)
(* LoadManage tick that classifies the node with LoadTable and advertises   *)
(* load changes, and HandleRead, the handler of inbound "lb" messages.     *)
(***************************************************************************)
EXTENDS Integers, Sequences, FiniteSets, TLC

\* ------------------------------------------------------------------ bounds
\* device readings (net generation, net load) range over 0..MaxPower
MaxPower == 2
\* LoadManage ticks per agent in the network specification
MaxTicks == 1
\* messages in flight per ordered pair of agents
MaxChan == 1
\* peerList deliveries per agent in the network specification
MaxRoster == 1
\* equal actuations of one device in a row
MaxReps == 3

\* ------------------------------------------------------------- vocabulary
Agents == {"A", "B", "C"}
UUID == Agents

\* the order of the uuids as keys of a PeerSet (a std::map)
Rank == [u \in UUID |-> IF u = "A" THEN 1 ELSE IF u = "B" THEN 2 ELSE 3]

\* LPeerNode::SUPPLY / NORM / DEMAND, the values of l_Status
SUPPLY == "SUPPLY"
NORM == "NORM"
DEMAND == "DEMAND"

\* the values of the "lb" field HandleRead distinguishes, and one it does not
Tags == {"peerList", "request", "demand", "normal", "supply", "yes", "no",
         "drafting", "accept", "load", "bogus"}

\* a message as a property tree: lb, lb.source, lb.peers, lb.value; the reply
\* to "load" carries sc.status instead; absent names the keys a handler
\* reads that the tree does not have
Msg(tag, src) ==
    [lb |-> tag, source |-> src, peers |-> {}, value |-> 0, status |-> "",
     absent |-> {}]

VARIABLES
    node,     \* node[a]: the fields of agent a's lbAgent object
    failed,   \* failed[a]: the process of a died in a handler
    started,  \* started[a]: LB() has run, the first LoadManage is behind a
    net,      \* net[src][dst]: messages in flight, in send order
    ev,       \* the operation that ran last, the message it handled, what it sent
    round,    \* per agent: peers solicited by the last tick, peers drafted since
    ticks,    \* ticks[a]: LoadManage ticks a has run (network specification)
    rosters,  \* rosters[a]: peerList messages a has handled (network specification)
    armed,    \* armed[a]: a wait on m_GlobalTimer is pending
    devices,  \* devices[d]: the class of physical device d and its settings
    act       \* the run of equal actuations that ended with the last one

vars == <<node, failed, started, net, ev, round, ticks, rosters, armed,
          devices, act>>

\* l_Status after construction: LPeerNode's constructor is not part of the
\* sources at hand; the previous state of the first tick is NORMAL
InitStatus == NORM

\* lbAgent::lbAgent: the agent inserts itself into l_AllPeers and into no
\* bucket.  DemandValue and P_Gateway are assigned by LoadTable before any
\* read; P_Gen, B_Soc and P_Load are written by LoadTable and only printed,
\* the tick's event keeps the readings.
NewAgent(self) ==
    [l_AllPeers |-> {self}, m_LoNodes |-> {}, m_HiNodes |-> {}, m_NoNodes |-> {},
     l_Status |-> InitStatus, preLoad |-> InitStatus,
     P_Gateway |-> 0, DemandValue |-> 0]

\* ------------------------------------------------------------ peer registry
\* lbAgent::get_peer: non-null iff the uuid is a key of l_AllPeers
get_peer(s, uuid) == uuid \in s.l_AllPeers

\* lbAgent::add_peer: a new LPeerNode goes into l_AllPeers and m_NoNodes
add_peer(s, uuid) ==
    [s EXCEPT !.l_AllPeers = @ \cup {uuid}, !.m_NoNodes = @ \cup {uuid}]

\* the buckets that hold uuid p
BucketsOf(s, p) ==
    {b \in {SUPPLY, NORM, DEMAND} :
        \/ b = SUPPLY /\ p \in s.m_LoNodes
        \/ b = NORM /\ p \in s.m_NoNodes
        \/ b = DEMAND /\ p \in s.m_HiNodes}

\* --------------------------------------------------------------- LoadTable
\* a classifier that is NORM only at balance, by the sign of the gateway value
ClassifyBySign(gw) ==
    IF gw < 0 THEN SUPPLY ELSE IF gw > 0 THEN DEMAND ELSE NORM

\* a classifier without the NORM band: Supply up to balance, else Demand
ClassifyNoBand(gw) ==
    IF gw <= 0 THEN SUPPLY ELSE DEMAND

\* the load state computed from the gateway value
ClassifyGateway(gw) ==
    IF gw <= 0 THEN SUPPLY ELSE IF gw > 1 THEN DEMAND ELSE NORM

\* UpdateSelf without the three EraseInPeerSet calls
UpdateSelfNoErase(self, s) ==
    IF self \in s.l_AllPeers
    THEN [s EXCEPT
            !.m_LoNodes = IF s.l_Status = SUPPLY THEN @ \cup {self} ELSE @,
            !.m_NoNodes = IF s.l_Status = NORM THEN @ \cup {self} ELSE @,
            !.m_HiNodes = IF s.l_Status = DEMAND THEN @ \cup {self} ELSE @]
    ELSE s

\* the foreach over l_AllPeers that moves this node's own entry: erased from
\* the three buckets, inserted into the one of l_Status
UpdateSelf(self, s) ==
    IF self \in s.l_AllPeers
    THEN [s EXCEPT
            !.m_LoNodes = IF s.l_Status = SUPPLY THEN @ \cup {self} ELSE @ \ {self},
            !.m_NoNodes = IF s.l_Status = NORM THEN @ \cup {self} ELSE @ \ {self},
            !.m_HiNodes = IF s.l_Status = DEMAND THEN @ \cup {self} ELSE @ \ {self}]
    ELSE s

LoadTable(self, s, gen, load) ==
    LET gw == load - gen
        s1 == [s EXCEPT !.P_Gateway = gw,
                        !.l_Status = ClassifyGateway(gw),
                        !.DemandValue = IF gw > 1 THEN 1 - gw ELSE @]
    IN UpdateSelf(self, s1)

\* -------------------------------------------------------------- LoadManage
\* one message to every peer of l_AllPeers but this node
Broadcast(self, s, tag) ==
    {[to |-> p, msg |-> Msg(tag, self)] : p \in s.l_AllPeers \ {self}}

\* DraftTargets soliciting the whole registry
DraftTargetsAllPeers(self, s) == s.l_AllPeers \ {self}

\* the peers SendDraftRequest sends "request" to: the entries of m_HiNodes
DraftTargets(self, s) == s.m_HiNodes \ {self}

\* a supplier that drafts its demand peers on the tick, without the request
SendDraftRequestDrafting(self, s) ==
    IF s.l_Status = SUPPLY
    THEN {[to |-> p, msg |-> Msg("drafting", self)] : p \in s.m_HiNodes \ {self}}
    ELSE {}

\* lbAgent::SendDraftRequest
SendDraftRequest(self, s) ==
    IF s.l_Status = SUPPLY
    THEN IF s.m_HiNodes = {}
         THEN {}
         ELSE {[to |-> p, msg |-> Msg("request", self)] : p \in DraftTargets(self, s)}
    ELSE {}

\* the edges with the test of the previous state dropped or widened
DemandEdgeEveryTick(s) == s.l_Status = DEMAND
NormalEdgeFromAny(s) == s.preLoad # NORM /\ s.l_Status = NORM

\* the two load changes LoadManage broadcasts
DemandEdge(s) == s.preLoad = NORM /\ s.l_Status = DEMAND
NormalEdge(s) == s.preLoad = DEMAND /\ s.l_Status = NORM

\* lbAgent::LoadManage(): the state after the tick and the messages it sends.
\* The devices pv1, battery1, load1, grid1, dg1 it reads by id are attached.
LoadManage(self, s, gen, load) ==
    LET s0 == [s EXCEPT !.preLoad = s.l_Status]
        s1 == LoadTable(self, s0, gen, load)
    IN [st |-> s1,
        out |-> IF DemandEdge(s1) THEN Broadcast(self, s1, "demand")
                ELSE IF NormalEdge(s1) THEN Broadcast(self, s1, "normal")
                ELSE IF s1.l_Status = SUPPLY THEN SendDraftRequest(self, s1)
                ELSE {}]

\* the devices LoadTable fetches by id and reads without testing the pointer
ByIdDevices == {"pv1", "battery1", "load1", "grid1", "dg1"}

\* LoadManage() that starts the timer anew only where it sends something
LoadManageOnRestartIfSent(self, s, gen, load, missing) ==
    LET r == LoadManage(self, s, gen, load)
    IN [st |-> r.st, out |-> r.out, fail |-> FALSE, armed |-> r.out # {}]

\* LoadManage() on a node where the devices of missing are not attached.
\* GetDevice(id)->get_powerLevel() for an id without device goes through a
\* DevicePtr that points to nothing, under no test and no try: the process
\* dies in LoadTable, after preLoad was assigned and before the timer is
\* started.
LoadManageOn(self, s, gen, load, missing) ==
    IF ByIdDevices \cap missing = {}
    THEN LET r == LoadManage(self, s, gen, load)
         IN [st |-> r.st, out |-> r.out, fail |-> FALSE, armed |-> TRUE]
    ELSE [st |-> [s EXCEPT !.preLoad = s.l_Status], out |-> {}, fail |-> TRUE,
          armed |-> FALSE]

\* a timer callback that runs the tick whatever the error code
LoadManageErrAlwaysRuns(self, s, err, gen, load, missing) ==
    LoadManageOn(self, s, gen, load, missing)

\* lbAgent::LoadManage(const error_code&), the callback of m_GlobalTimer:
\* without error the tick, which starts the timer anew; on operation_aborted
\* a log line; on any other error a system_error thrown out of the callback
LoadManageErr(self, s, err, gen, load, missing) ==
    IF err = "success"
    THEN LoadManageOn(self, s, gen, load, missing)
    ELSE IF err = "operation_aborted"
    THEN [st |-> s, out |-> {}, fail |-> FALSE, armed |-> FALSE]
    ELSE [st |-> s, out |-> {}, fail |-> TRUE, armed |-> FALSE]

\* --------------------------------------------------------------------- Send
\* a send loop that stops at the first peer, in key order, it cannot reach
DeliveredUntilFailure(out, down) ==
    {o \in out : \A q \in down : (\E x \in out : x.to = q) => Rank[o.to] < Rank[q]}

\* peer_->Send(m_) inside try / catch (system_error): a send to a peer that
\* cannot be reached is logged and the loop goes on; of the messages out,
\* the ones that leave the node
Delivered(out, down) == {o \in out : o.to \notin down}

\* --------------------------------------------------------------- HandleRead
\* a handler that returned, and one in which the process died: the fields
\* after, the messages sent, the migrations started (calls) and the commands
\* issued to physical devices (cmds)
Outcome(s, out) ==
    [st |-> s, out |-> out, fail |-> FALSE, calls |-> {}, cmds |-> {}]
Crash(s) == [st |-> s, out |-> {}, fail |-> TRUE, calls |-> {}, cmds |-> {}]

\* pt.get<std::string>(key) on a tree without the key throws ptree_bad_path;
\* HandleRead has no try block, the exception leaves it with the fields as
\* they are at the throw
Thrown(s) == Crash(s)

\* a peerList loop without the test that skips this node's own entry
ErasedSetsSelfToo(self, X) == {{}}

\* One of the peerList loops: foreach over a PeerSet, in key order, erasing
\* every entry but this node's.  Erasing the entry the iteration stands on
\* invalidates the iterator the foreach then advances: the first entry met is
\* erased, which of the later ones are still visited is not defined.
ErasedSets(self, X) ==
    LET ns == X \ {self}
    IN IF ns = {} THEN {X}
       ELSE LET first == CHOOSE p \in ns : \A q \in ns : Rank[p] <= Rank[q]
            IN {X \ ({first} \cup e) : e \in SUBSET (ns \ {first})}

\* some peerList loop erases under its own iteration
EraseUB(self, s) ==
    \E X \in {s.l_AllPeers, s.m_LoNodes, s.m_HiNodes, s.m_NoNodes} : X \ {self} # {}

\* the tokens of lb.peers: add_peer for each one get_peer does not find
AddTokens(s, peers) ==
    [s EXCEPT !.l_AllPeers = @ \cup peers,
              !.m_NoNodes = @ \cup (peers \ s.l_AllPeers)]

\* HandleRead, "peerList"
HandlePeerList(self, s, m) ==
    IF "lb.peers" \in m.absent THEN {Thrown(s)} ELSE
    {Outcome(AddTokens([s EXCEPT !.l_AllPeers = a, !.m_LoNodes = l,
                                 !.m_HiNodes = h, !.m_NoNodes = n], m.peers), {}) :
        a \in ErasedSets(self, s.l_AllPeers), l \in ErasedSets(self, s.m_LoNodes),
        h \in ErasedSets(self, s.m_HiNodes), n \in ErasedSets(self, s.m_NoNodes)}
    \cup (IF EraseUB(self, s) THEN {Crash(s)} ELSE {})

\* a request answered "yes" whatever the load state
RequestReplyYes(s) == "yes"

\* HandleRead, "request": the source becomes a Supply node and is answered
RequestReply(s) == IF s.l_Status = DEMAND THEN "yes" ELSE "no"

HandleRequest(self, s, p) ==
    Outcome([s EXCEPT !.m_LoNodes = @ \cup {p}, !.m_HiNodes = @ \ {p},
                      !.m_NoNodes = @ \ {p}],
            {[to |-> p, msg |-> Msg(RequestReply(s), self)]})

\* "demand" inserting the source into m_HiNodes without the two erases
HandleDemandNoErase(self, s, p) ==
    Outcome([s EXCEPT !.m_HiNodes = @ \cup {p}], {})

\* HandleRead, "demand", "normal", "supply"
HandleDemand(self, s, p) ==
    Outcome([s EXCEPT !.m_HiNodes = @ \cup {p}, !.m_NoNodes = @ \ {p},
                      !.m_LoNodes = @ \ {p}], {})

HandleNormal(self, s, p) ==
    Outcome([s EXCEPT !.m_NoNodes = @ \cup {p}, !.m_HiNodes = @ \ {p},
                      !.m_LoNodes = @ \ {p}], {})

HandleSupply(self, s, p) ==
    Outcome([s EXCEPT !.m_LoNodes = @ \cup {p}, !.m_HiNodes = @ \ {p},
                      !.m_NoNodes = @ \ {p}], {})

\* drafting sent on every "yes"
SendsDraftingAlways(s) == TRUE

\* HandleRead, "yes": drafting goes out if this node is in Supply state
SendsDrafting(s) == s.l_Status = SUPPLY

HandleYes(self, s, p) ==
    Outcome(s, IF SendsDrafting(s) THEN {[to |-> p, msg |-> Msg("drafting", self)]}
               ELSE {})

\* HandleRead, "no"
HandleNo(self, s, p) == Outcome(s, {})

\* "drafting" accepted whatever the load state
HandleDraftingAnyState(self, s, p) ==
    Outcome(s, {[to |-> p,
                 msg |-> [Msg("accept", self) EXCEPT !.value = s.DemandValue]]})

\* HandleRead, "drafting": accept with lb.value = DemandValue; the power
\* setting of the demand node is commented out, no device is commanded
HandleDrafting(self, s, p) ==
    Outcome(s, IF s.l_Status = DEMAND
               THEN {[to |-> p,
                      msg |-> [Msg("accept", self) EXCEPT !.value = s.DemandValue]]}
               ELSE {})

\* lbAgent::InitiatePowerMigration: walks the DESDs by power level; every Set
\* on a device is commented out, so no field and no device changes
InitiatePowerMigration(s, DemValue) == s

\* the commands InitiatePowerMigration issues to devices: none, the Set on
\* each DESD being commented out
MigrationCommands(s, DemValue) == {}

\* "accept" moving the supplier to NORM, as the comment of the branch says
HandleAcceptToNorm(self, s, p, m) ==
    Outcome(IF s.l_Status = SUPPLY THEN [s EXCEPT !.l_Status = NORM] ELSE s, {})

\* "accept" starting the migration whatever the load state
HandleAcceptAnyState(self, s, p, m) ==
    [Outcome(InitiatePowerMigration(s, m.value), {})
       EXCEPT !.calls = {"InitiatePowerMigration"},
              !.cmds = MigrationCommands(s, m.value)]

\* HandleRead, "accept"
HandleAccept(self, s, p, m) ==
    IF s.l_Status = SUPPLY
    THEN [Outcome(InitiatePowerMigration(s, m.value), {})
            EXCEPT !.calls = {"InitiatePowerMigration"},
                   !.cmds = MigrationCommands(s, m.value)]
    ELSE Outcome(s, {})

\* a reply that reports NORMAL whatever the load state
StatusStringNormal(s) == "NORMAL"

\* HandleRead, "load": the reply on the sc tag, sent to get_peer(lb.source)
StatusString(s) ==
    IF s.l_Status = SUPPLY THEN "SUPPLY"
    ELSE IF s.l_Status = DEMAND THEN "DEMAND"
    ELSE IF s.l_Status = NORM THEN "NORMAL"
    ELSE "Unknown"

HandleLoad(self, s, src) ==
    IF get_peer(s, src)
    THEN {Outcome(s, {[to |-> src,
                       msg |-> [Msg("sc", self) EXCEPT !.status = StatusString(s)]]})}
    ELSE {Crash(s)}

\* the branches guarded by peer_->GetUUID() != GetUUID()
GuardedTags == {"request", "demand", "normal", "supply", "yes", "no", "drafting", "accept"}

\* the entry of the source is looked up and, if missing, added; peer_ stays
\* null when the source is this node itself
UpsertSource(self, s, src) ==
    IF src # self /\ ~get_peer(s, src) THEN add_peer(s, src) ELSE s

\* lbAgent::HandleRead: the outcomes of handling message m in state s.
\* With lb.source equal to this node's uuid peer_ is null, and the guard of
\* the matching branch dereferences it: the process dies, or the guard reads
\* as false and the message falls through to "Invalid Message Type".
HandleRead(self, s, m) ==
    LET src == m.source
        s1 == UpsertSource(self, s, src)
    IN IF "lb.source" \in m.absent THEN {Thrown(s)}
       ELSE IF m.lb = "peerList" THEN HandlePeerList(self, s1, m)
       ELSE IF m.lb \in GuardedTags
       THEN IF src = self THEN {Crash(s1), Outcome(s1, {})}
            ELSE CASE m.lb = "request" -> {HandleRequest(self, s1, src)}
                   [] m.lb = "demand" -> {HandleDemand(self, s1, src)}
                   [] m.lb = "normal" -> {HandleNormal(self, s1, src)}
                   [] m.lb = "supply" -> {HandleSupply(self, s1, src)}
                   [] m.lb = "yes" -> {HandleYes(self, s1, src)}
                   [] m.lb = "no" -> {HandleNo(self, s1, src)}
                   [] m.lb = "drafting" -> {HandleDrafting(self, s1, src)}
                   [] m.lb = "accept" ->
                        IF "lb.value" \in m.absent THEN {Thrown(s1)}
                        ELSE {HandleAccept(self, s1, src, m)}
       ELSE IF m.lb = "load" THEN HandleLoad(self, s1, src)
       ELSE {Outcome(s1, {})}

\* ------------------------------------------------------------------ inputs
\* the lb.value an accept can carry: the DemandValue of a Demand node
DemandValues == {1 - g : g \in 2..MaxPower}

\* the power level the grid link device grid1 can report, the flow through
\* the gateway: out of the node, none, into the node
LinkLevels == {0 - 1, 0, 1}

\* every message an agent can be handed
Inbound ==
    {[Msg(t, src) EXCEPT !.peers = ps, !.value = v] :
        t \in Tags, src \in UUID, ps \in SUBSET UUID, v \in DemandValues \cup {0}}

WellFormed(m) ==
    /\ m.absent = {}
    /\ (m.lb # "peerList" => m.peers = {})
    /\ (m.lb = "accept" <=> m.value # 0)

Messages == {m \in Inbound : WellFormed(m)}

\* the agent the single-agent specification exercises; its peers are the
\* environment
Tested == {"A"}

\* the node that leads the group and sends the roster
Leader == "A"

\* ----------------------------------------------------------------- history
NoRound == [req |-> {}, draft |-> {}]

\* the peers a set of sent messages addresses with tag
SentTo(out, tag) == {o.to : o \in {x \in out : x.msg.lb = tag}}

TickEvent(a, gen, load, link, r) ==
    [kind |-> "tick", agent |-> a, msg |-> Msg("tick", a), gen |-> gen, load |-> load,
     link |-> link, out |-> r.out, fail |-> FALSE, calls |-> {}, cmds |-> {},
     down |-> {}, missing |-> {}]

ReadEvent(a, m, r) ==
    [kind |-> "msg", agent |-> a, msg |-> m, gen |-> 0, load |-> 0,
     link |-> 0, out |-> r.out, fail |-> r.fail, calls |-> r.calls, cmds |-> r.cmds,
     down |-> {}, missing |-> {}]

\* -------------------------------------------------------- physical devices
\* one device of each class of the sources, under the ids LoadTable looks up
DeviceIds == {"grid1", "pv1", "dg1"}

DeviceClass(d) ==
    CASE d = "grid1" -> "CGridLinkDevice"
      [] d = "pv1" -> "CPVDevice"
      [] d = "dg1" -> "CDieselGeneratorDevice"

\* the values the sources write to the setting onOffSwitch
SwitchValues == {0, 1}

NewDevice(d, sw) == [class |-> DeviceClass(d), onOffSwitch |-> sw]

\* "Sets the value of some key to the input value"
Set(dev, key, value) == [dev EXCEPT ![key] = value]

CGridLinkDevice_turnOnToggle(dev) == Set(dev, "onOffSwitch", 1 - dev.onOffSwitch)
CGridLinkDevice_turnOn(dev) == Set(dev, "onOffSwitch", 0)

CGridLinkDevice_turnOff(dev) == Set(dev, "onOffSwitch", 1)

CPVDevice_turnOn(dev) == Set(dev, "onOffSwitch", 1)

CPVDevice_turnOff(dev) == Set(dev, "onOffSwitch", 0)

CDieselGeneratorDevice_turnOn(dev) == Set(dev, "onOffSwitch", 1)

CDieselGeneratorDevice_turnOff(dev) == Set(dev, "onOffSwitch", 0)

\* the virtual calls of IPhysicalDevice, bound by the class of the object
turnOn(dev) ==
    CASE dev.class = "CGridLinkDevice" -> CGridLinkDevice_turnOn(dev)
      [] dev.class = "CPVDevice" -> CPVDevice_turnOn(dev)
      [] dev.class = "CDieselGeneratorDevice" -> CDieselGeneratorDevice_turnOn(dev)

turnOff(dev) ==
    CASE dev.class = "CGridLinkDevice" -> CGridLinkDevice_turnOff(dev)
      [] dev.class = "CPVDevice" -> CPVDevice_turnOff(dev)
      [] dev.class = "CDieselGeneratorDevice" -> CDieselGeneratorDevice_turnOff(dev)

\* no device has been actuated yet
NoActuation ==
    [device |-> "none", op |-> "none", reps |-> 0, before |-> 0, first |-> 0]

\* ------------------------------------------------------------------- state
InitAgents ==
    /\ node = [a \in Agents |-> NewAgent(a)]
    /\ failed = [a \in Agents |-> FALSE]
    /\ started = [a \in Agents |-> FALSE]
    /\ net = [a \in Agents |-> [b \in Agents |-> <<>>]]
    /\ ev = [kind |-> "init", agent |-> Leader, msg |-> Msg("init", Leader),
             gen |-> 0, load |-> 0, link |-> 0, out |-> {}, fail |-> FALSE,
             calls |-> {}, cmds |-> {}, down |-> {}, missing |-> {}]
    /\ armed = [a \in Agents |-> FALSE]
    /\ round = [a \in Agents |-> NoRound]
    /\ ticks = [a \in Agents |-> 0]
    /\ rosters = [a \in Agents |-> 0]

\* lbAgent calls turnOn, turnOff or Set on no device (InitiatePowerMigration
\* has its Set calls commented out), so under the agent's specifications the
\* switches stay what the simulation holds; they are taken closed
Init ==
    /\ InitAgents
    /\ devices = [d \in DeviceIds |-> NewDevice(d, 0)]
    /\ act = NoActuation

\* the agent's fields and its failure after a tick / a handler; LoadManage
\* ends by starting the timer anew
Ticked(a, r) ==
    /\ node' = [node EXCEPT ![a] = r.st]
    /\ started' = [started EXCEPT ![a] = TRUE]
    /\ armed' = [armed EXCEPT ![a] = TRUE]
    /\ UNCHANGED failed

Handled(a, r) ==
    /\ node' = [node EXCEPT ![a] = r.st]
    /\ failed' = [failed EXCEPT ![a] = r.fail]
    /\ UNCHANGED <<started, armed>>

\* LoadManage can run: LB() runs the first one, the expired timer the others
TimerReady(a) == ~started[a] \/ armed[a]

\* the round of a supplier: opened by the requests of a tick, it collects the
\* peers sent "drafting" until the next tick
RoundTicked(a, r) ==
    round' = [round EXCEPT ![a] = [req |-> SentTo(r.out, "request"), draft |-> {}]]

RoundHandled(a, r) ==
    round' = [round EXCEPT ![a].draft = @ \cup SentTo(r.out, "drafting")]

\* ------------------------------------------- single agent, any environment
\* the timer fires: LoadManage with the devices reading gen and load, and
\* the grid link grid1 reading link, which LoadTable reads and only prints
TimerFires(a) ==
    /\ ~failed[a] /\ TimerReady(a)
    /\ \E gen \in 0..MaxPower, load \in 0..MaxPower, link \in LinkLevels :
          LET r == LoadManage(a, node[a], gen, load)
          IN Ticked(a, r) /\ ev' = TickEvent(a, gen, load, link, r)
    /\ UNCHANGED <<net, round, ticks, rosters, devices, act>>

\* the dispatcher hands the agent a message; what it sends leaves the model
Receive(a) ==
    /\ ~failed[a]
    /\ \E m \in Messages : \E r \in HandleRead(a, node[a], m) :
          Handled(a, r) /\ ev' = ReadEvent(a, m, r)
    /\ UNCHANGED <<net, round, ticks, rosters, devices, act>>

Next == \E a \in Tested : TimerFires(a) \/ Receive(a)

\* --------------------------------- single agent, faults in the environment
\* the error codes a timer callback is handed
TimerErrors == {"success", "operation_aborted", "bad_descriptor"}

\* the messages of the drafting protocol and of state collection; the group
\* roster is left out, the registry fills from the sources of messages
WellFormedMessages == {m \in Messages : m.lb # "peerList"}

\* the keys HandleRead reads from a message of tag
RequiredKeys(tag) ==
    {"lb.source"} \cup (IF tag = "peerList" THEN {"lb.peers"} ELSE {})
                  \cup (IF tag = "accept" THEN {"lb.value"} ELSE {})

\* messages that lack one of the keys their handler reads
Malformed ==
    {[Msg(t, src) EXCEPT !.absent = {k}] :
        t \in {"peerList", "accept", "demand"}, src \in UUID \ Tested,
        k \in {"lb.source", "lb.peers", "lb.value"}}

FaultMessages == WellFormedMessages \cup {m \in Malformed : m.absent \subseteq RequiredKeys(m.lb)}

\* the peers no send reaches while an operation runs: none, or one of them
Unreachable == {{}} \cup {{p} : p \in UUID \ Tested}

\* the readings of a tick and the peers no send reaches while it runs
\* and the devices not attached: none, or the grid link, without which no
\* reading is used and no send is tried
TickInputs ==
    [gen : 0..MaxPower, load : 0..MaxPower, link : {0}, down : Unreachable,
     missing : {{}}]
    \cup {[gen |-> 0, load |-> 0, link |-> 0, down |-> {}, missing |-> {"grid1"}]}

\* the inputs of a callback that does not run the tick
NoInputs == [gen |-> 0, load |-> 0, link |-> 0, down |-> {}, missing |-> {}]

\* the peers of down an operation tried to send to
FailedSends(out, down) == {o.to : o \in out} \cap down

\* the event of a tick of which only the sends to reachable peers leave
FaultTickEvent(a, i, r) ==
    [TickEvent(a, i.gen, i.load, i.link, r)
        EXCEPT !.out = Delivered(r.out, i.down), !.down = FailedSends(r.out, i.down),
               !.fail = r.fail, !.missing = i.missing]

\* LB(): the first LoadManage
Start(a) ==
    /\ ~failed[a] /\ ~started[a]
    /\ \E i \in TickInputs :
          LET r == LoadManageOn(a, node[a], i.gen, i.load, i.missing)
          IN /\ node' = [node EXCEPT ![a] = r.st]
             /\ failed' = [failed EXCEPT ![a] = r.fail]
             /\ armed' = [armed EXCEPT ![a] = r.armed]
             /\ started' = [started EXCEPT ![a] = TRUE]
             /\ ev' = FaultTickEvent(a, i, r)
    /\ UNCHANGED <<net, round, ticks, rosters, devices, act>>

\* the pending wait on the timer completes with error code err
TimerExpires(a) ==
    /\ ~failed[a] /\ armed[a]
    /\ \E err \in TimerErrors :
       \E i \in IF err = "success" THEN TickInputs ELSE {NoInputs} :
          LET r == LoadManageErr(a, node[a], err, i.gen, i.load, i.missing)
          IN /\ node' = [node EXCEPT ![a] = r.st]
             /\ failed' = [failed EXCEPT ![a] = r.fail]
             /\ armed' = [armed EXCEPT ![a] = r.armed]
             /\ ev' = IF err = "success" THEN FaultTickEvent(a, i, r)
                      ELSE [TickEvent(a, 0, 0, 0, r) EXCEPT !.kind = err,
                                                            !.fail = r.fail]
    /\ UNCHANGED <<started, net, round, ticks, rosters, devices, act>>

\* a message is handled while its source, the peer a handler replies to, can
\* or cannot be reached
ReceiveFault(a) ==
    /\ ~failed[a]
    /\ \E m \in FaultMessages : \E down \in {{}, {m.source}} :
          \E r \in HandleRead(a, node[a], m) :
             /\ Handled(a, r)
             /\ ev' = [ReadEvent(a, m, r) EXCEPT !.out = Delivered(r.out, down),
                                                 !.down = FailedSends(r.out, down)]
    /\ UNCHANGED <<net, round, ticks, rosters, devices, act>>

NextFault == \E a \in Tested : Start(a) \/ TimerExpires(a) \/ ReceiveFault(a)

SpecFault == Init /\ [][NextFault]_vars

\* ------------------------------------------------ the control loop, fairly
\* the messages that move a peer between the buckets a tick sends by
LoopMessages == {Msg(t, src) : t \in {"demand", "normal"}, src \in UUID \ Tested}

ReceiveLoop(a) ==
    /\ ~failed[a]
    /\ \E m \in LoopMessages : \E r \in HandleRead(a, node[a], m) :
          Handled(a, r) /\ ev' = ReadEvent(a, m, r)
    /\ UNCHANGED <<net, round, ticks, rosters, devices, act>>

NextLoop == \E a \in Tested : Start(a) \/ TimerExpires(a) \/ ReceiveLoop(a)

\* the io_service runs the callback of a pending wait
SpecLoop == Init /\ [][NextLoop]_vars /\ \A a \in Tested : WF_vars(TimerExpires(a))

Spec == Init /\ [][Next]_vars

\* ------------------------------------------------------ network of agents
\* the channels after agent a sent out
Enqueue(n, a, out) ==
    [n EXCEPT ![a] = [b \in Agents |->
        LET ms == {o \in out : o.to = b}
        IN IF ms = {} THEN @[b] ELSE Append(@[b], (CHOOSE o \in ms : TRUE).msg)]]

Room(a, out) == \A o \in out : Len(net[a][o.to]) < MaxChan

\* the timer of a fires: LoadManage, what it sends goes to the channels
TimerTick(a) ==
    /\ ~failed[a] /\ TimerReady(a)
    /\ \E gen \in 0..MaxPower, load \in 0..MaxPower :
          LET r == LoadManage(a, node[a], gen, load)
          IN /\ Room(a, r.out)
             /\ Ticked(a, r)
             /\ RoundTicked(a, r)
             /\ net' = Enqueue(net, a, r.out)
    /\ UNCHANGED <<ev, rosters, devices, act>>

Tick(a) ==
    /\ ticks[a] < MaxTicks
    /\ TimerTick(a)
    /\ ticks' = [ticks EXCEPT ![a] = @ + 1]

Deliver(a, src) ==
    /\ ~failed[a]
    /\ net[src][a] # <<>>
    /\ LET m == Head(net[src][a])
           n1 == [net EXCEPT ![src][a] = Tail(@)]
       IN \E r \in HandleRead(a, node[a], m) :
             /\ \A o \in r.out : Len(n1[a][o.to]) < MaxChan
             /\ Handled(a, r)
             /\ RoundHandled(a, r)
             /\ net' = Enqueue(n1, a, r.out)
    /\ UNCHANGED <<ev, ticks, rosters, devices, act>>

\* the group leader's roster reaches agent a
Roster(a) ==
    /\ ~failed[a]
    /\ rosters[a] < MaxRoster
    /\ LET m == [Msg("peerList", Leader) EXCEPT !.peers = Agents]
       IN \E r \in HandleRead(a, node[a], m) : Handled(a, r)
    /\ rosters' = [rosters EXCEPT ![a] = @ + 1]
    /\ UNCHANGED <<net, ev, round, ticks, devices, act>>

NextNet == \E a \in Agents : Tick(a) \/ Roster(a) \/ (\E src \in Agents : Deliver(a, src))

SpecNet == Init /\ [][NextNet]_vars

\* ------------------------------------------- one demander and its observers
\* agent B is given the roster before its control loop starts and then ticks
\* without end; A ticks up to MaxTicks times, C only handles what reaches it,
\* and every message in flight is delivered
Demander == "B"
Supplier == "A"

ViewRoster == ~started[Demander] /\ Roster(Demander)

\* the control loop of the demander runs on without end
ViewTick == TimerTick(Demander) /\ UNCHANGED ticks

SupplierTick == Tick(Supplier)

ViewDeliver(a, src) == Deliver(a, src)

NextView ==
    \/ ViewRoster
    \/ ViewTick
    \/ SupplierTick
    \/ \E a, src \in Agents : ViewDeliver(a, src)

\* the transport delivers every message it has accepted, and the io_service
\* runs the callback of a pending wait
SpecView ==
    /\ Init /\ [][NextView]_vars
    /\ \A a, src \in Agents : WF_vars(ViewDeliver(a, src))
    /\ WF_vars(ViewTick)

\* ------------------------------------------------- actuation of the devices
\* a caller invokes op on device d: act counts the invocations of the run of
\* equal calls on d and keeps the switch before the run and after its first call
Actuate(d, op) ==
    LET dev == devices[d]
        after == IF op = "turnOn" THEN turnOn(dev) ELSE turnOff(dev)
        again == act.device = d /\ act.op = op
    IN /\ again => act.reps < MaxReps
       /\ devices' = [devices EXCEPT ![d] = after]
       /\ act' = IF again THEN [act EXCEPT !.reps = @ + 1]
                 ELSE [device |-> d, op |-> op, reps |-> 1,
                       before |-> dev.onOffSwitch, first |-> after.onOffSwitch]
       /\ UNCHANGED <<node, failed, started, net, ev, round, ticks, rosters, armed>>

TurnOn(d) == Actuate(d, "turnOn")

TurnOff(d) == Actuate(d, "turnOff")

\* the switches are what the simulation holds when the devices are built
InitDev ==
    /\ InitAgents
    /\ \E sw \in [DeviceIds -> SwitchValues] :
          devices = [d \in DeviceIds |-> NewDevice(d, sw[d])]
    /\ act = NoActuation

NextDev == \E d \in DeviceIds : TurnOn(d) \/ TurnOff(d)

SpecDev == InitDev /\ [][NextDev]_vars

\* ------------------------------------------------------------------ claims
\* the agent of the last event and its fields
EvNode == node[ev.agent]
EvPeers == EvNode.l_AllPeers \ {ev.agent}
TickDone == ev.kind = "tick"
ReadDone == ev.kind = "msg" /\ ~ev.fail

\* C1: in the handshake request, yes, drafting, accept{v} between a supplier
\* and a demander, v is the demander's demand magnitude, net load minus net
\* generation: every accept in flight from a node in Demand state carries
\* that node's load - gen.
C1_AcceptCarriesDemandMagnitude ==
    \A a \in Agents, b \in Agents :
        \A i \in DOMAIN net[b][a] :
            (net[b][a][i].lb = "accept" /\ node[b].l_Status = DEMAND)
                => net[b][a][i].value = node[b].P_Gateway

C3_DemandOnEveryDemandTick ==
    (TickDone /\ EvNode.l_Status = DEMAND) => SentTo(ev.out, "demand") = EvPeers

\* C3 amended: a tick classified DEMAND sends "demand" to every registry peer
\* but the node itself when the previous state was NORM, and sends no
\* "demand" when the previous state was DEMAND or SUPPLY.
C3_DemandOnNormToDemand ==
    (TickDone /\ EvNode.l_Status = DEMAND) =>
        /\ SentTo(ev.out, "demand") = IF EvNode.preLoad = NORM THEN EvPeers ELSE {}
        /\ \A o \in ev.out : o.msg.lb = "demand"

C3_Witness ==
    /\ TickDone /\ EvNode.l_Status = DEMAND /\ EvNode.preLoad = NORM
    /\ Cardinality(SentTo(ev.out, "demand")) = 2

\* C4 as stated: every tick classified SUPPLY sends "request" to every
\* registry peer but the node itself, whatever the peer's bucket.
C4_RequestToAllPeers ==
    (TickDone /\ EvNode.l_Status = SUPPLY) => SentTo(ev.out, "request") = EvPeers

\* C4 amended: every tick classified SUPPLY sends "request" to exactly the
\* peers of the DEMAND bucket m_HiNodes but the node itself, and sends
\* nothing else; with no peer classified DEMAND it sends nothing.
C4_RequestToDemandBucket ==
    (TickDone /\ EvNode.l_Status = SUPPLY) =>
        /\ SentTo(ev.out, "request") = EvNode.m_HiNodes \ {ev.agent}
        /\ \A o \in ev.out : o.msg.lb = "request"

C4_Witness ==
    /\ TickDone /\ EvNode.l_Status = SUPPLY
    /\ SentTo(ev.out, "request") = {"B"}
    /\ EvPeers = {"B", "C"}

\* C5 as stated: every tick from a previous state other than NORM to NORM
\* sends "normal" to every registry peer but the node itself.
C5_NormalFromAnyState ==
    (TickDone /\ EvNode.preLoad # NORM /\ EvNode.l_Status = NORM)
        => SentTo(ev.out, "normal") = EvPeers

\* C5 amended: a tick classified NORM sends "normal" to every registry peer
\* but the node itself when the previous state was DEMAND, and sends nothing
\* when the previous state was SUPPLY or NORM.
C5_NormalFromDemand ==
    (TickDone /\ EvNode.l_Status = NORM) =>
        ev.out = IF EvNode.preLoad = DEMAND
                 THEN {[to |-> p, msg |-> Msg("normal", ev.agent)] : p \in EvPeers}
                 ELSE {}

C5_Witness ==
    /\ TickDone /\ EvNode.l_Status = NORM /\ EvNode.preLoad = DEMAND
    /\ Cardinality(SentTo(ev.out, "normal")) = 2

\* C6: within one drafting round, the replies to one tick's "request"
\* broadcast, a supplier sends "drafting" to at most one of the peers it
\* solicited.
C6_OneDraftingPerRound ==
    \A a \in Agents : Cardinality(round[a].draft \cap round[a].req) <= 1

\* C7: a message whose lb.source is the agent's own uuid is ignored whatever
\* its tag: handling it sends nothing, changes no field of the agent and does
\* not fail.
C7_SelfMessageIgnored ==
    [][(ev'.kind = "msg" /\ ev'.msg.source = ev'.agent)
          => (node' = node /\ ev'.out = {} /\ ~ev'.fail)]_vars

\* C8: after every tick the agent's own uuid is in exactly one of m_LoNodes,
\* m_NoNodes, m_HiNodes, the one of l_Status.
C8_SelfInOneBucketAfterTick ==
    TickDone => BucketsOf(EvNode, ev.agent) = {EvNode.l_Status}

C8_Witness ==
    /\ TickDone /\ EvNode.l_Status = DEMAND /\ EvNode.preLoad = SUPPLY
    /\ EvPeers # {}

\* C9 as stated: in every reachable state, from construction onward, the
\* agent's own uuid is in the registry and in the bucket of l_Status.
C9_SelfClassifiedAlways ==
    \A a \in Agents :
        a \in node[a].l_AllPeers /\ BucketsOf(node[a], a) = {node[a].l_Status}

\* C9 amended: in every reachable state the agent's own uuid is in the
\* registry; from the first tick onward, between ticks and after any handler
\* including peerList, it is in exactly the bucket of l_Status; between
\* construction and the first tick it is in no bucket.
C9_SelfClassifiedOnceStarted ==
    \A a \in Agents :
        /\ a \in node[a].l_AllPeers
        /\ BucketsOf(node[a], a) = IF started[a] THEN {node[a].l_Status} ELSE {}

C9_Witness ==
    /\ ReadDone /\ ev.msg.lb = "peerList" /\ ev.agent \notin ev.msg.peers
    /\ started[ev.agent] /\ EvNode.l_Status = DEMAND
    /\ EvNode.l_AllPeers = {ev.agent} \cup ev.msg.peers /\ ev.msg.peers # {}

\* C10: in every reachable state every peer of the registry is in exactly one
\* of the three buckets, the agent's own entry from its first tick onward.
C10_ExactlyOneBucket ==
    \A a \in Agents : \A p \in node[a].l_AllPeers :
        (p # a \/ started[a]) => Cardinality(BucketsOf(node[a], p)) = 1

\* C11: in every reachable state the registry l_AllPeers of an agent holds the
\* agent's own uuid, also after peerList messages that do not name it.
C11_SelfInRegistry ==
    \A a \in Agents : a \in node[a].l_AllPeers

C11_Witness ==
    /\ ReadDone /\ ev.msg.lb = "peerList" /\ ev.msg.source = "C"
    /\ ev.msg.peers = {"B"} /\ ~started[ev.agent]
    /\ EvNode.l_AllPeers = {ev.agent, "B"}

\* C12: after a peerList with uuid set G is handled, whoever sent it, the
\* registry holds exactly G and the agent's own uuid, and every peer outside
\* G, the sender included, is in no bucket.
C12_RegistryIsRoster ==
    (ReadDone /\ ev.msg.lb = "peerList") =>
        /\ EvNode.l_AllPeers = ev.msg.peers \cup {ev.agent}
        /\ \A p \in UUID \ (ev.msg.peers \cup {ev.agent}) : BucketsOf(EvNode, p) = {}

\* C13: whenever l_Status is DEMAND the demand value is strictly positive.
C13_DemandValuePositive ==
    \A a \in Agents : node[a].l_Status = DEMAND => node[a].DemandValue > 0

C15_GatewayAware ==
    (TickDone /\ ev.link # 0) =>
        LET avail == ev.gen - ev.link
        IN IF ev.link > 0
           THEN EvNode.l_Status = IF avail > ev.load THEN SUPPLY ELSE NORM
           ELSE IF avail >= ev.load THEN EvNode.l_Status = NORM
                ELSE EvNode.l_Status = DEMAND /\ EvNode.DemandValue = ev.load - avail

\* C15 amended: the classification does not take the flow m through the
\* gateway into account: with m > 0 and with m < 0 alike the state is the one
\* of the gateway value load - gen, SUPPLY up to 0, NORM up to 1, DEMAND above.
C15_FlowIgnored ==
    (TickDone /\ ev.link # 0) =>
        EvNode.l_Status = IF ev.load - ev.gen <= 0 THEN SUPPLY
                          ELSE IF ev.load - ev.gen > 1 THEN DEMAND ELSE NORM

C15_Witness ==
    /\ TickDone /\ ev.link = 1 /\ ev.gen = 2 /\ ev.load = 1
    /\ EvNode.l_Status = SUPPLY

\* C16: a "request" from a peer P other than the agent leaves P in the SUPPLY
\* bucket and in no other, and is answered by exactly one message, to P:
\* "yes" if l_Status is DEMAND, "no" otherwise.  A "no" ends the exchange:
\* the agent that receives it sends nothing, starts no migration and
\* commands no device, and neither does the agent that sent it.
C16_RequestAnswered ==
    /\ (ReadDone /\ ev.msg.lb = "request" /\ ev.msg.source # ev.agent) =>
          /\ BucketsOf(EvNode, ev.msg.source) = {SUPPLY}
          /\ ev.out = {[to |-> ev.msg.source,
                        msg |-> Msg(IF EvNode.l_Status = DEMAND THEN "yes" ELSE "no",
                                    ev.agent)]}
          /\ ev.calls = {} /\ ev.cmds = {}
    /\ (ReadDone /\ ev.msg.lb = "no" /\ ev.msg.source # ev.agent) =>
          ev.out = {} /\ ev.calls = {} /\ ev.cmds = {}

C16_Witness ==
    /\ ReadDone /\ ev.msg.lb = "request" /\ ev.msg.source = "B"
    /\ EvNode.l_Status = SUPPLY /\ EvNode.m_HiNodes = {"C"}
    /\ SentTo(ev.out, "no") = {"B"}

AcceptTo(a, P) ==
    [to |-> P, msg |-> [Msg("accept", a) EXCEPT !.value = EvNode.DemandValue]]

C19_AcceptTurnsGridOn ==
    (ReadDone /\ ev.msg.lb = "accept" /\ ev.msg.source # ev.agent
        /\ EvNode.l_Status = SUPPLY) =>
        /\ ev.calls = {"InitiatePowerMigration"}
        /\ \E c \in ev.cmds : c.dev = "grid1" /\ c.op = "turnOn"

BucketOfTag(tag) ==
    IF tag = "demand" THEN DEMAND ELSE IF tag = "normal" THEN NORM ELSE SUPPLY

StatusText(st) ==
    IF st = SUPPLY THEN "SUPPLY" ELSE IF st = DEMAND THEN "DEMAND"
    ELSE IF st = NORM THEN "NORMAL" ELSE "Unknown"

\* the one reply to a "load" from P
ScReply(a, P, st) ==
    {[to |-> P, msg |-> [Msg("sc", a) EXCEPT !.status = StatusText(st)]]}

\* C22 as stated: on a "load" from P the agent sends exactly one reply, to P,
\* on the sc tag with sc.status naming its l_Status, and l_Status and the
\* three buckets are as before.
C22_LoadChangesNothing ==
    [][(ev'.kind = "msg" /\ ~ev'.fail /\ ev'.msg.lb = "load") =>
          LET a == ev'.agent
              P == ev'.msg.source
          IN /\ ev'.out = ScReply(a, P, node[a].l_Status)
             /\ node'[a].l_Status = node[a].l_Status
             /\ node'[a].m_LoNodes = node[a].m_LoNodes
             /\ node'[a].m_NoNodes = node[a].m_NoNodes
             /\ node'[a].m_HiNodes = node[a].m_HiNodes]_vars

\* C22 amended: on a "load" from P the agent sends exactly one reply, to P,
\* on the sc tag with sc.status naming its l_Status; l_Status and the three
\* buckets are as before, except that a P not in the registry before is
\* entered in it and in the NORM bucket.
C22_LoadRepliesStatus ==
    [][(ev'.kind = "msg" /\ ~ev'.fail /\ ev'.msg.lb = "load") =>
          LET a == ev'.agent
              P == ev'.msg.source
              new == {P} \ node[a].l_AllPeers
          IN /\ ev'.out = ScReply(a, P, node[a].l_Status)
             /\ node'[a] = [node[a] EXCEPT !.l_AllPeers = @ \cup new,
                                           !.m_NoNodes = @ \cup new]]_vars

C22_Witness ==
    /\ ReadDone /\ ev.msg.lb = "load" /\ ev.msg.source = "B"
    /\ EvNode.l_Status = DEMAND /\ BucketsOf(EvNode, "B") = {DEMAND}
    /\ ev.out = ScReply(ev.agent, "B", DEMAND)

\* the peers a set of messages addresses
Targets(out) == {o.to : o \in out}

\* C23: a send that fails, in the broadcast of a tick or in the reply of a
\* handler, does not abort the operation.  Every message of the operation to
\* a peer that can be reached still leaves, none is addressed to the agent
\* itself by a tick, the agent's fields are those of the operation without
\* the failure, the process lives on and after a tick the timer is pending.
C23_SendFailureContained ==
    [][LET a == ev'.agent
       IN /\ (ev'.kind = "tick" /\ ev'.missing = {}) =>
                LET r == LoadManage(a, node[a], ev'.gen, ev'.load)
                IN /\ node'[a] = r.st
                   /\ ev'.out = {o \in r.out : o.to \notin ev'.down}
                   /\ ev'.down \subseteq Targets(r.out)
                   /\ a \notin Targets(r.out)
                   /\ armed'[a] /\ ~failed'[a]
          /\ (ev'.kind = "msg" /\ ~ev'.fail) =>
                \E r \in HandleRead(a, node[a], ev'.msg) :
                   /\ ~r.fail /\ node'[a] = r.st
                   /\ ev'.out = {o \in r.out : o.to \notin ev'.down}
                   /\ ev'.down \subseteq Targets(r.out)
                   /\ armed'[a] = armed[a] /\ ~failed'[a]]_vars

C23_Witness ==
    /\ TickDone /\ EvNode.preLoad = NORM /\ EvNode.l_Status = DEMAND
    /\ EvPeers = {"B", "C"} /\ ev.down = {"B"}
    /\ ev.out = {[to |-> "C", msg |-> Msg("demand", ev.agent)]}
    /\ armed[ev.agent]

\* C24: a tick on a node where a device LoadTable reads by id, the grid link
\* for one, is not attached does not fail: the gateway value stays the one of
\* the previous tick and the next tick is scheduled.
C24_MissingDeviceTolerated ==
    [][(ev'.kind = "tick" /\ ev'.missing # {}) =>
          LET a == ev'.agent
          IN /\ ~failed'[a] /\ armed'[a]
             /\ node'[a].P_Gateway = node[a].P_Gateway]_vars

C26_MalformedDropped ==
    [][(ev'.kind = "msg" /\ ev'.msg.absent # {}) =>
          /\ node'[ev'.agent] = node[ev'.agent]
          /\ ev'.out = {} /\ ev'.calls = {} /\ ev'.cmds = {}
          /\ ~ev'.fail]_vars

\* the last operation was the handling of a message of tag from P
Answering(tag, P) ==
    ev.kind = "msg" /\ ev.msg.lb = tag /\ ev.msg.source = P

\* C27: the messages of a round are sent only in answer to the one before.
\* An agent sends "accept" to a peer only while handling a "drafting" from
\* that peer, "drafting" only while handling a "yes" from it, "yes" only
\* while handling a "request" from it, and starts a migration only while
\* handling an "accept"; a tick sends none of the three.
C27_RoundInOrder ==
    /\ \A o \in ev.out :
          /\ o.msg.lb = "accept" => Answering("drafting", o.to)
          /\ o.msg.lb = "drafting" => Answering("yes", o.to)
          /\ o.msg.lb = "yes" => Answering("request", o.to)
    /\ ev.calls # {} => ev.kind = "msg" /\ ev.msg.lb = "accept"

C27_Witness ==
    /\ Answering("request", "C") /\ ~ev.fail /\ EvNode.l_Status = DEMAND
    /\ ev.out = {[to |-> "C", msg |-> Msg("yes", ev.agent)]}
    /\ BucketsOf(EvNode, "B") = {DEMAND}

\* C28: after a peerList is handled every uuid of the list that was not in
\* the registry before is in the NORM bucket and in no other, and the agent's
\* own entry is where it was: in the registry and in the same bucket, the one
\* of l_Status once the agent has ticked, also when the list names the agent.
C28_NewPeersNormalSelfKept ==
    [][(ev'.kind = "msg" /\ ~ev'.fail /\ ev'.msg.lb = "peerList") =>
          LET a == ev'.agent
          IN /\ \A u \in ev'.msg.peers \ node[a].l_AllPeers :
                   BucketsOf(node'[a], u) = {NORM}
             /\ a \in node'[a].l_AllPeers
             /\ BucketsOf(node'[a], a) = BucketsOf(node[a], a)
             /\ started[a] => BucketsOf(node'[a], a) = {node'[a].l_Status}]_vars

\* C29: a uuid P other than the agent enters the registry, in the NORM
\* bucket, with the first message that has P as its source or, for a
\* peerList, in its list; a tag that classifies its source (request, supply,
\* demand) then moves P to that bucket.  Once in the registry P stays there
\* across every tick and every message but a peerList.
C29_PeerLifecycle ==
    [][LET a == ev'.agent
           P == ev'.msg.source
           known == node[a].l_AllPeers
       IN /\ ev'.kind = "tick" => node'[a].l_AllPeers = known
          /\ (ev'.kind = "msg" /\ ~ev'.fail /\ ev'.msg.lb # "peerList") =>
                /\ node'[a].l_AllPeers = known \cup {P}
                /\ (P \notin known /\ ev'.msg.lb \notin {"request", "supply", "demand"})
                      => BucketsOf(node'[a], P) = {NORM}
          /\ (ev'.kind = "msg" /\ ~ev'.fail /\ ev'.msg.lb = "peerList") =>
                \A u \in ev'.msg.peers \ known :
                   u \in node'[a].l_AllPeers /\ BucketsOf(node'[a], u) = {NORM}]_vars

\* the loop of agent A was ended from outside: the timer was cancelled or
\* failed, or the process died
Stopped ==
    failed["A"] \/ ev.kind = "operation_aborted" \/ ev.kind = "bad_descriptor"

C31_SenderAlwaysAnswered ==
    (ReadDone /\ ev.msg.source # ev.agent) => ev.msg.source \in Targets(ev.out)

\* C32: the GRID link's controls are inverted and all controls idempotent.
\* After any run of one or more equal actuations of a device, whatever the
\* switch was before, onOffSwitch is what the first call of the run left:
\* 0 after turnOn and 1 after turnOff on the CGridLinkDevice, 1 after turnOn
\* and 0 after turnOff on the CPVDevice and the CDieselGeneratorDevice.
C32_GridInvertedIdempotent ==
    act # NoActuation =>
       LET dev == devices[act.device]
           on == act.op = "turnOn"
       IN /\ dev.onOffSwitch = act.first
          /\ dev.class = "CGridLinkDevice" =>
                dev.onOffSwitch = (IF on THEN 0 ELSE 1)
          /\ dev.class \in {"CPVDevice", "CDieselGeneratorDevice"} =>
                dev.onOffSwitch = (IF on THEN 1 ELSE 0)

C32_Witness ==
    /\ act.device = "grid1" /\ act.op = "turnOn" /\ act.reps = MaxReps
    /\ act.before = 1 /\ devices["grid1"].onOffSwitch = 0
    /\ devices["pv1"].onOffSwitch = 1

\* C33: peer-view consistency.  Whenever B is in DEMAND after a tick with A
\* in its registry since before that tick, no roster arriving afterwards and
\* every message of B being delivered, A eventually has B in its DEMAND
\* bucket, whichever state B entered DEMAND from and however long it stays.
C33_DemanderBecomesVisible ==
    (/\ started[Demander] /\ node[Demander].l_Status = DEMAND
     /\ Supplier \in node[Demander].l_AllPeers)
       ~> (Demander \in node[Supplier].m_HiNodes)

\* C34: a roster replacement preserves known classifications.  When a
\* peerList is handled, every peer other than the agent that was in the
\* registry in the SUPPLY or the DEMAND bucket and is named in the list is
\* still in the registry and in the same bucket afterwards; a known peer
\* leaves the registry only if the list does not name it.
C34_RosterKeepsClassification ==
    [][(ev'.kind = "msg" /\ ~ev'.fail /\ ev'.msg.lb = "peerList") =>
          LET a == ev'.agent
          IN \A P \in (node[a].l_AllPeers \cap ev'.msg.peers) \ {a} :
                /\ P \in node'[a].l_AllPeers
                /\ BucketsOf(node[a], P) \in {{SUPPLY}, {DEMAND}} =>
                      BucketsOf(node'[a], P) = BucketsOf(node[a], P)]_vars

====
